---- MODULE Spec2Model ----
(***************************************************************************)
(* A model of the user-space TCP stack of tcp-rust: the transmission       *)
(* control block of src/tcp.rs (accept, on_packet, on_tick, write, close)  *)
(* and the connection manager, packet loop and stream API of src/lib.rs.   *)
(*                                                                         *)
(* Sequence numbers live on a ring of 2^SeqBits values instead of 2^32,    *)
(* and usize values on a ring of 2^(2*SeqBits) instead of 2^64; every      *)
(* wrapping operation of the source is a wrapping operation here.          *)
(***************************************************************************)
EXTENDS Integers, Sequences, FiniteSets, TLC

\* ------------------------------------------------------------------------
\* Bounds of the model
\* ------------------------------------------------------------------------

\* width of a sequence number (u32 in the source)
SeqBits == 14

\* longest payload of an inbound segment
MaxPayload == 2

\* most bytes the peer's segments may deliver into one incoming queue
MaxDelivered == 5

\* most bytes the application writes into one stream
MaxWritten == 2

\* most segments of one flow that the peer sends out of order
MaxOdd == 1

\* ------------------------------------------------------------------------
\* Wrapping arithmetic (u32, usize)
\* ------------------------------------------------------------------------

\* number of sequence numbers on the ring
SeqMod == 2 ^ SeqBits

\* number of usize values
USizeMod == SeqMod * SeqMod

\* u32::wrapping_add
wrapping_add(a, b) == (a + b) % SeqMod

\* u32::wrapping_sub
wrapping_sub(a, b) == (a - b + SeqMod) % SeqMod

\* usize subtraction of a release build (wraps)
usize_sub(a, b) == (a - b + USizeMod) % USizeMod

\* `x as u32` for a usize x
as_u32(x) == x % SeqMod

Min(a, b) == IF a <= b THEN a ELSE b

\* tcp.rs Wrap::wrapping_lt
wrapping_lt(lhs, rhs) == wrapping_sub(lhs, rhs) > SeqMod \div 2

\* tcp.rs Wrap::is_between_wrapped
\* connection.rs, the earlier is_between_wrapped: by the order of start, x
\* and end as plain numbers
is_between_wrapped_cmp(x, start, end) ==
    IF start = x THEN FALSE
    ELSE IF start < x THEN ~(end >= start /\ end <= x)
    ELSE end < start /\ end > x

is_between_wrapped(x, start, end) == wrapping_lt(start, x) /\ wrapping_lt(x, end)

\* s[from+1 ..], the Rust slice s[from..]
SliceFrom(s, from) == SubSeq(s, from + 1, Len(s))

\* s[.. to], the Rust slice s[..to]
SliceTo(s, to) == SubSeq(s, 1, to)

\* ------------------------------------------------------------------------
\* The peer's byte stream and the application's byte stream
\* ------------------------------------------------------------------------

\* the octet the peer's stream holds at sequence number s
PeerByte(s) == s % 256

\* the payload of a segment of the peer that starts at seq and has n octets
PeerData(seq, n) == [i \in 1..n |-> PeerByte(wrapping_add(seq, i - 1))]

\* the k-th octet (k >= 1) the application writes into its stream
AppByte(k) == k

\* ------------------------------------------------------------------------
\* tcp.rs: the transmission control block
\* ------------------------------------------------------------------------

\* window advertised in every outbound segment, and SND.wnd
wnd_size == 1024

\* initial send sequence number
iss == 0

\* buf of Connection::write
BufLen == 1504

\* IPv4 header plus TCP header, both without options
HeaderLen == 40

\* Option<u32>
None == <<>>
Some(v) == <<v>>
is_some(o) == Len(o) > 0
unwrap_or(o, d) == IF Len(o) > 0 THEN o[1] ELSE d

\* result of an operation on a TCB: the TCB as the operation left it, the
\* segments handed to the tunnel, and whether the operation panicked
Ret(c, out, panic) == [c |-> c, out |-> out, panic |-> panic]

\* Connection::write(nic, seq, limit): one segment from sequence number seq
\* with at most limit octets of unacked
write(c, seq, limit) ==
    LET off0 == wrapping_sub(seq, c.una)
        offset == IF is_some(c.closed_at) /\ seq = wrapping_add(c.closed_at[1], 1)
                  THEN 0 ELSE off0
    IN  IF offset > Len(c.unacked)
        THEN \* &tail[(offset - skipped)..] is out of range
             Ret(c, <<>>, TRUE)
        ELSE
        LET avail == SliceFrom(c.unacked, offset)
            max_data == Min(limit, Len(avail))
            payload == SliceTo(avail, Min(max_data, BufLen - HeaderLen))
            seg == [seq |-> seq, ackn |-> c.rnxt, syn |-> c.syn, fin |-> c.fin,
                    ack |-> c.ackf, wnd |-> wnd_size, data |-> payload]
            n0 == wrapping_add(seq, Len(payload))
            n1 == IF c.syn THEN wrapping_add(n0, 1) ELSE n0
            next_seq == IF c.fin THEN wrapping_add(n1, 1) ELSE n1
        IN  Ret([c EXCEPT !.syn = FALSE, !.fin = FALSE,
                          !.nxt = IF wrapping_lt(c.nxt, next_seq) THEN next_seq ELSE c.nxt,
                          !.send_times = c.send_times \cup {seq}],
                <<seg>>, FALSE)

\* the TCB that Connection::accept builds before it sends the SYN|ACK;
\* rnxt is sequence_number() + 1 as the build computes it
NewConnection(seg, rnxt) ==
    [state |-> "SynRecvd",
     irs |-> seg.seq, rnxt |-> rnxt, rwnd |-> seg.wnd,
     iss |-> iss, una |-> iss, nxt |-> iss, swnd |-> wnd_size,
     incoming |-> <<>>, unacked |-> <<>>,
     closed |-> FALSE, closed_at |-> None,
     syn |-> TRUE, fin |-> FALSE, ackf |-> TRUE,
     send_times |-> {}]

\* Connection::accept; some = FALSE stands for Ok(None). debug is TRUE
\* when the build checks arithmetic overflow (sequence_number() + 1)
accept(seg, debug) ==
    IF ~seg.syn
    THEN [some |-> FALSE, c |-> NewConnection(seg, 0), out |-> <<>>, panic |-> FALSE]
    ELSE IF seg.seq + 1 >= SeqMod /\ debug
    THEN [some |-> FALSE, c |-> NewConnection(seg, 0), out |-> <<>>, panic |-> TRUE]
    ELSE LET c0 == NewConnection(seg, (seg.seq + 1) % SeqMod)
             w == write(c0, c0.nxt, 0)
         IN  [some |-> ~w.panic, c |-> w.c, out |-> w.out, panic |-> w.panic]

\* SEG.LEN of on_packet: data.len() plus one for SYN and one for FIN
slen(seg) ==
    Len(seg.data) + (IF seg.syn THEN 1 ELSE 0) + (IF seg.fin THEN 1 ELSE 0)

\* `okay` of on_packet: the valid-segment check
okay(c, seg) ==
    LET seqn == seg.seq
        w_end == wrapping_add(c.rnxt, c.rwnd)
        lo == wrapping_sub(c.rnxt, 1)
    IN  IF slen(seg) = 0
        THEN IF c.rwnd = 0
             THEN seqn = c.rnxt
             ELSE is_between_wrapped(seqn, lo, w_end)
        ELSE \/ ~(c.rwnd = 0)
             \/ ~(/\ ~is_between_wrapped(seqn, lo, w_end)
                  /\ ~is_between_wrapped(wrapping_add(seqn, slen(seg) - 1), lo, w_end))

\* Connection::is_recv_closed
is_recv_closed(c) == c.state = "TimeWait"

\* Connection::availability, as the set of flags
availability(c) ==
    (IF is_recv_closed(c) \/ c.incoming # <<>> THEN {"READ"} ELSE {})
    \cup (IF c.unacked = <<>> THEN {"FLUSH"} ELSE {})

\* on_packet_synrecvd with the test SND.UNA < SEG.ACK =< SND.NXT of the
\* comment at tcp.rs:314 in place of the test of the code
on_packet_synrecvd_strict(c, seg) ==
    IF /\ c.state = "SynRecvd"
       /\ is_between_wrapped(seg.ackn, c.una, wrapping_add(c.nxt, 1))
    THEN Ret([c EXCEPT !.state = "Estab"], <<>>, FALSE)
    ELSE Ret(c, <<>>, FALSE)

\* on_packet, SynRecvd with an acceptable ACK becomes Estab
on_packet_synrecvd(c, seg) ==
    IF /\ c.state = "SynRecvd"
       /\ is_between_wrapped(seg.ackn, wrapping_sub(c.una, 1), wrapping_add(c.nxt, 1))
    THEN Ret([c EXCEPT !.state = "Estab"], <<>>, FALSE)
    ELSE Ret(c, <<>>, FALSE)

\* on_packet_ack with data_start = SND.una also while the SYN is
\* unacknowledged
on_packet_ack_from_una(c, seg) ==
    IF /\ c.state \in {"Estab", "FinWait1", "FinWait2"}
       /\ is_between_wrapped(seg.ackn, c.una, wrapping_add(c.nxt, 1))
    THEN LET data_start == c.una
             acked_data_end == Min(wrapping_sub(seg.ackn, data_start), Len(c.unacked))
             c1 == IF c.unacked # <<>>
                   THEN [c EXCEPT !.unacked = SliceFrom(c.unacked, acked_data_end),
                                  !.send_times =
                                      {s \in c.send_times :
                                          ~is_between_wrapped(s, c.una, seg.ackn)}]
                   ELSE c
         IN  Ret([c1 EXCEPT !.una = seg.ackn], <<>>, FALSE)
    ELSE Ret(c, <<>>, FALSE)

\* on_packet, ACK processing in Estab, FinWait1 and FinWait2
on_packet_ack(c, seg) ==
    IF /\ c.state \in {"Estab", "FinWait1", "FinWait2"}
       /\ is_between_wrapped(seg.ackn, c.una, wrapping_add(c.nxt, 1))
    THEN LET data_start == wrapping_add(c.una, IF c.una = c.iss THEN 1 ELSE 0)
             acked_data_end == Min(wrapping_sub(seg.ackn, data_start), Len(c.unacked))
             c1 == IF c.unacked # <<>>
                   THEN [c EXCEPT !.unacked = SliceFrom(c.unacked, acked_data_end),
                                  !.send_times =
                                      {s \in c.send_times :
                                          ~is_between_wrapped(s, c.una, seg.ackn)}]
                   ELSE c
         IN  Ret([c1 EXCEPT !.una = seg.ackn], <<>>, FALSE)
    ELSE Ret(c, <<>>, FALSE)

\* on_packet_finwait1 that takes the FIN for acknowledged when SND.una
\* reaches closed_at, the sequence number of the FIN itself
on_packet_finwait1_at_fin(c, seg) ==
    IF /\ c.state = "FinWait1"
       /\ is_some(c.closed_at)
       /\ c.una = c.closed_at[1]
    THEN Ret([c EXCEPT !.state = "FinWait2"], <<>>, FALSE)
    ELSE Ret(c, <<>>, FALSE)

\* on_packet, FinWait1 becomes FinWait2 once our FIN is acknowledged
on_packet_finwait1(c, seg) ==
    IF /\ c.state = "FinWait1"
       /\ is_some(c.closed_at)
       /\ c.una = wrapping_add(c.closed_at[1], 1)
    THEN Ret([c EXCEPT !.state = "FinWait2"], <<>>, FALSE)
    ELSE Ret(c, <<>>, FALSE)

\* on_packet, delivery of the payload to incoming
on_packet_data(c, seg) ==
    IF seg.data # <<>> /\ c.state \in {"Estab", "FinWait1", "FinWait2"}
    THEN LET unread0 == wrapping_sub(c.rnxt, seg.seq)
         IN  IF unread0 > Len(seg.data) /\ unread0 # Len(seg.data) + 1
             THEN \* assert_eq!(unread_data_at, data.len() + 1)
                  Ret(c, <<>>, TRUE)
             ELSE LET unread_data_at == IF unread0 > Len(seg.data) THEN 0 ELSE unread0
                      c1 == [c EXCEPT
                               !.incoming = c.incoming \o SliceFrom(seg.data, unread_data_at),
                               !.rnxt = wrapping_add(seg.seq, Len(seg.data))]
                  IN  write(c1, c1.nxt, 0)
    ELSE Ret(c, <<>>, FALSE)

\* on_packet_fin that takes the FIN of the peer in every state
on_packet_fin_any(c, seg) ==
    IF seg.fin
    THEN LET c1 == [c EXCEPT !.rnxt = wrapping_add(c.rnxt, 1)]
             w == write(c1, c1.nxt, 0)
         IN  IF w.panic THEN w
             ELSE Ret([w.c EXCEPT !.state = "TimeWait"], w.out, FALSE)
    ELSE Ret(c, <<>>, FALSE)

\* on_packet, the peer's FIN in FinWait2
on_packet_fin(c, seg) ==
    IF seg.fin /\ c.state = "FinWait2"
    THEN LET c1 == [c EXCEPT !.rnxt = wrapping_add(c.rnxt, 1)]
             w == write(c1, c1.nxt, 0)
         IN  IF w.panic THEN w
             ELSE Ret([w.c EXCEPT !.state = "TimeWait"], w.out, FALSE)
    ELSE Ret(c, <<>>, FALSE)

\* Connection::on_packet
on_packet(c, seg) ==
    IF ~okay(c, seg)
    THEN write(c, c.nxt, 0)
    ELSE IF ~seg.ack
    THEN IF seg.syn
         THEN IF seg.data # <<>>
              THEN \* assert!(data.is_empty())
                   Ret(c, <<>>, TRUE)
              ELSE Ret([c EXCEPT !.rnxt = wrapping_add(seg.seq, 1)], <<>>, FALSE)
         ELSE Ret(c, <<>>, FALSE)
    ELSE LET r1 == on_packet_synrecvd(c, seg)
             r2 == on_packet_ack(r1.c, seg)
             r3 == on_packet_finwait1(r2.c, seg)
             r4 == on_packet_data(r3.c, seg)
             r5 == on_packet_fin(r4.c, seg)
         IN  IF r4.panic
             THEN \* self.write(..)? or the assertion of the data step
                  r4
             ELSE Ret(r5.c, r4.out \o r5.out, r5.panic)

\* Connection::on_tick. retransmit is TRUE when the oldest transmission at
\* or after SND.una was sent more than one second and more than 1.5 srtt
\* ago; debug is TRUE when the build checks arithmetic overflow
on_tick(c, retransmit, debug) ==
    IF c.state \in {"FinWait2", "TimeWait"}
    THEN Ret(c, <<>>, FALSE)
    ELSE
    LET n_unacked == wrapping_sub(unwrap_or(c.closed_at, c.nxt), c.una)
        len == Len(c.unacked)
        unsent == usize_sub(len, n_unacked)
        waited == \E s \in c.send_times : s >= c.una
        should_retransmit == waited /\ retransmit
    IN  IF len < n_unacked /\ debug
        THEN \* self.unacked.len() - n_unacked overflows
             Ret(c, <<>>, TRUE)
        ELSE IF should_retransmit
        THEN LET resend == Min(as_u32(len), c.swnd)
                 c1 == IF resend < c.swnd /\ c.closed
                       THEN [c EXCEPT !.fin = TRUE,
                                      !.closed_at = Some(wrapping_add(c.una, as_u32(len)))]
                       ELSE c
             IN  write(c1, c1.una, resend)
        ELSE IF unsent = 0 /\ is_some(c.closed_at)
        THEN Ret(c, <<>>, FALSE)
        ELSE IF c.swnd < n_unacked /\ debug
        THEN \* self.send.wnd as usize - n_unacked overflows
             Ret(c, <<>>, TRUE)
        ELSE
        LET allowed == usize_sub(c.swnd, n_unacked)
            send == Min(unsent, allowed)
            c1 == IF send < allowed /\ c.closed /\ ~is_some(c.closed_at)
                  THEN [c EXCEPT !.fin = TRUE,
                                 !.closed_at = Some(wrapping_add(c.nxt, as_u32(unsent)))]
                  ELSE c
        IN  IF allowed = 0
            THEN Ret(c, <<>>, FALSE)
            ELSE write(c1, c1.nxt, send)

\* Connection::close that moves the state and leaves closed as it is
close_unflagged(c) ==
    IF c.state \in {"SynRecvd", "Estab"}
    THEN [c |-> [c EXCEPT !.state = "FinWait1"], err |-> FALSE]
    ELSE IF c.state \in {"FinWait1", "FinWait2"}
    THEN [c |-> c, err |-> FALSE]
    ELSE [c |-> c, err |-> TRUE]

\* Connection::close; err is TRUE for Err(NotConnected)
close(c) ==
    LET c1 == [c EXCEPT !.closed = TRUE]
    IN  IF c.state \in {"SynRecvd", "Estab"}
        THEN [c |-> [c1 EXCEPT !.state = "FinWait1"], err |-> FALSE]
        ELSE IF c.state \in {"FinWait1", "FinWait2"}
        THEN [c |-> c1, err |-> FALSE]
        ELSE [c |-> c1, err |-> TRUE]

\* ------------------------------------------------------------------------
\* lib.rs: connection manager, packet loop, listener and stream
\* ------------------------------------------------------------------------

\* capacity of the send queue of a stream
SENDQUEUE_SIZE == 1024

\* a connection quad; the two addresses are fixed and left out
Quad(sport, dport) == [src |-> sport, dst |-> dport]

\* the flow and the listening port whose TCB the model follows in detail
Quads == {Quad(4000, 9000)}
Ports == {9000}

\* every flow and every port the connection manager can hold: a second
\* flow to the same port and a flow to a second port
AllQuads == Quads \cup {Quad(4001, 9000), Quad(4002, 9001)}
AllPorts == Ports \cup {9001}

\* is_between_wrapped has not been called
NoCall == [x |-> 0, start |-> 0, end |-> 0, res |-> <<>>, cmp |-> <<>>]

VARIABLES
    connections,  \* ConnectionManager.connections: quad -> <<>> or <<TCB>>
    pending,      \* ConnectionManager.pending: port -> <<>> or <<FIFO of quads>>
    streams,      \* quads for which the application holds a TcpStream
    consumed,     \* quad -> octets that read has drained from incoming
    wrote,        \* quad -> number of octets the application has written
    odd,          \* quad -> number of segments the peer sent out of order
    debug,        \* the build checks arithmetic overflow (debug profile)
    poisoned,     \* a thread panicked while it held the manager mutex
    rd,           \* quad -> what the last pass of TcpStream::read came to
    out,          \* the segments the last step handed to the tunnel
    opened,       \* the quads in the order packet_loop accepted their SYN
    crashed,      \* the streams whose calling thread panicked outside the lock
    iface,        \* the Interface: "up", "dropping" (in Drop), "dropped"
    running,      \* the packet_loop thread has not ended
    call,         \* the arguments and the result of a call of is_between_wrapped
    recv_var,     \* quad -> the consumer in read on it: "none", "parked",
                  \* "woken" (by notify_all) or "panicked"
    pending_var   \* port -> the consumer in accept on it, in the same way

vars == <<connections, pending, streams, consumed,
          wrote, odd, debug, poisoned, rd, out,
          opened, crashed, iface, running, call, recv_var, pending_var>>

has(q) == Len(connections[q]) = 1
conn(q) == connections[q][1]
bound(p) == Len(pending[p]) = 1
fifo(p) == pending[p][1]

\* the state after Interface::new
Boot ==
    /\ connections = [q \in AllQuads |-> <<>>]
    /\ pending = [p \in AllPorts |-> <<>>]
    /\ streams = {}
    /\ consumed = [q \in AllQuads |-> <<>>]
    /\ wrote = [q \in AllQuads |-> 0]
    /\ odd = [q \in AllQuads |-> 0]
    /\ debug \in BOOLEAN
    /\ poisoned = FALSE
    /\ rd = [q \in AllQuads |-> [res |-> "none", n |-> 0]]
    /\ out = <<>>
    /\ opened = <<>>
    /\ crashed = {}
    /\ iface = "up"
    /\ running = TRUE
    /\ recv_var = [q \in AllQuads |-> "none"]
    /\ pending_var = [p \in AllPorts |-> "none"]

Init == Boot /\ call = NoCall

\* x.is_between_wrapped(start, end) of tcp.rs on the arguments of call
Between ==
    /\ call.res = <<>>
    /\ call' = [call EXCEPT
                   !.res = <<is_between_wrapped(call.x, call.start, call.end)>>]
    /\ UNCHANGED <<connections, pending, streams, consumed, wrote, odd, debug,
                   poisoned, rd, out, opened, crashed, iface, running,
                   recv_var, pending_var>>

\* x.is_between_wrapped(start, end) of connection.rs on the same arguments
BetweenCmp ==
    /\ call.cmp = <<>>
    /\ call' = [call EXCEPT
                   !.cmp = <<is_between_wrapped_cmp(call.x, call.start, call.end)>>]
    /\ UNCHANGED <<connections, pending, streams, consumed, wrote, odd, debug,
                   poisoned, rd, out, opened, crashed, iface, running,
                   recv_var, pending_var>>

\* Interface::bind
Bind(p) ==
    /\ ~poisoned
    /\ IF bound(p)
       THEN \* Err(AddrInUse)
            UNCHANGED pending
       ELSE pending' = [pending EXCEPT ![p] = << <<>> >>]
    /\ out' = <<>>
    /\ UNCHANGED <<connections, streams, consumed, wrote, odd, debug, poisoned, rd,
                 opened, crashed, iface, running, call, recv_var, pending_var>>

\* seg is what a well-behaved peer sends next on flow q: the segment at
\* RCV.nxt with the ACK bit and no SYN, or the SYN that opens the flow
InOrder(q, seg) ==
    IF has(q) THEN seg.seq = conn(q).rnxt /\ seg.ack /\ ~seg.syn ELSE TRUE

\* one iteration of packet_loop for a TCP segment seg of flow q
\* Condvar::notify_all: every thread parked on the condition variable is
\* made runnable
notify_all(cv) ==
    [w \in DOMAIN cv |-> IF cv[w] = "parked" THEN "woken" ELSE cv[w]]

PacketLoop(q, seg) ==
    /\ ~poisoned
    /\ running
    /\ IF has(q)
       THEN LET r == on_packet(conn(q), seg)
            IN  /\ connections' = [connections EXCEPT ![q] = <<r.c>>]
                /\ out' = r.out
                /\ poisoned' = r.panic
                /\ recv_var' = IF ~r.panic /\ "READ" \in availability(r.c)
                               THEN notify_all(recv_var)
                               ELSE recv_var
                /\ UNCHANGED <<pending, opened, pending_var>>
       ELSE IF bound(q.dst)
       THEN LET a == accept(seg, debug)
            IN  /\ connections' = IF a.some
                                  THEN [connections EXCEPT ![q] = <<a.c>>]
                                  ELSE connections
                /\ pending' = IF a.some
                              THEN [pending EXCEPT ![q.dst] = <<Append(fifo(q.dst), q)>>]
                              ELSE pending
                /\ opened' = IF a.some THEN Append(opened, q) ELSE opened
                /\ out' = a.out
                /\ poisoned' = a.panic
                /\ pending_var' = IF a.some /\ ~a.panic
                                  THEN notify_all(pending_var)
                                  ELSE pending_var
                /\ UNCHANGED recv_var
       ELSE \* no listener on the port: the segment is dropped
            /\ out' = <<>>
            /\ UNCHANGED <<connections, pending, poisoned, opened,
                           recv_var, pending_var>>
    \* a panic of on_packet or accept ends the thread
    /\ running' = ~poisoned'
    /\ odd' = [odd EXCEPT ![q] = @ + (IF InOrder(q, seg) THEN 0 ELSE 1)]
    /\ UNCHANGED <<streams, consumed, wrote, debug, rd, crashed, iface, call>>

\* packet_loop when nic.recv returns an error: `?` returns it and the
\* thread ends
RecvFails ==
    /\ running
    /\ running' = FALSE
    /\ out' = <<>>
    /\ UNCHANGED <<connections, pending, streams, consumed, wrote, odd, debug,
                   poisoned, rd, opened, crashed, iface, call,
                   recv_var, pending_var>>

\* packet_loop when a TCP segment arrives while the manager mutex is
\* poisoned: manager.lock().unwrap() panics and the thread ends
LoopLockFails ==
    /\ running
    /\ poisoned
    /\ running' = FALSE
    /\ out' = <<>>
    /\ UNCHANGED <<connections, pending, streams, consumed, wrote, odd, debug,
                   poisoned, rd, opened, crashed, iface, call,
                   recv_var, pending_var>>

\* Drop for Interface, up to the call of join: the handle is released
InterfaceDrop ==
    /\ iface = "up"
    /\ iface' = "dropping"
    /\ out' = <<>>
    /\ UNCHANGED <<connections, pending, streams, consumed, wrote, odd, debug,
                   poisoned, rd, opened, crashed, running, call,
                   recv_var, pending_var>>

\* Drop for Interface, from the return of join: the thread has ended, with
\* an error or a panic, which the two unwrap() turn into a panic of the drop
JoinReturn ==
    /\ iface = "dropping"
    /\ ~running
    /\ iface' = "dropped"
    /\ out' = <<>>
    /\ UNCHANGED <<connections, pending, streams, consumed, wrote, odd, debug,
                   poisoned, rd, opened, crashed, running, call,
                   recv_var, pending_var>>

\* TcpListener::accept that takes the quad queued last
ListenerAccept_lifo(p) ==
    /\ ~poisoned
    /\ bound(p)
    /\ IF fifo(p) # <<>>
       THEN /\ pending' = [pending EXCEPT ![p] = <<SliceTo(fifo(p), Len(fifo(p)) - 1)>>]
            /\ streams' = streams \cup {fifo(p)[Len(fifo(p))]}
       ELSE UNCHANGED <<pending, streams>>
    /\ out' = <<>>
    /\ UNCHANGED <<connections, consumed, wrote, odd, debug, poisoned, rd,
                   opened, crashed, iface, running, call,
                   recv_var, pending_var>>

\* TcpListener::accept on the listener of port p, one pass of its loop
\* (the call, or a wake-up, which Condvar::wait allows to be spurious) by a
\* thread whose place in the loop is not recorded
ListenerAccept(p) ==
    /\ ~poisoned
    /\ bound(p)
    /\ IF fifo(p) # <<>>
       THEN /\ pending' = [pending EXCEPT ![p] = <<Tail(fifo(p))>>]
            /\ streams' = streams \cup {Head(fifo(p))}
       ELSE \* self.ih.pending_var.wait(cm)
            UNCHANGED <<pending, streams>>
    /\ out' = <<>>
    /\ UNCHANGED <<connections, consumed, wrote, odd, debug, poisoned, rd,
                 opened, crashed, iface, running, call,
                   recv_var, pending_var>>

\* Drop for TcpListener that ends the queued connections, as the TODO of
\* its loop has it: the FIFO and the TCBs of its quads are removed
ListenerDrop_terminate(p) ==
    /\ ~poisoned
    /\ bound(p)
    /\ pending' = [pending EXCEPT ![p] = <<>>]
    /\ connections' = [q \in AllQuads |->
                          IF \E i \in 1..Len(fifo(p)) : fifo(p)[i] = q
                          THEN <<>> ELSE connections[q]]
    /\ out' = <<>>
    /\ UNCHANGED <<streams, consumed, wrote, odd, debug, poisoned, rd,
                   opened, crashed, iface, running, call,
                   recv_var, pending_var>>

\* Drop for TcpListener on the listener of port p: the FIFO is removed, and
\* unimplemented!() panics at the first quad in it, under the manager lock
ListenerDrop(p) ==
    /\ ~poisoned
    /\ bound(p)
    /\ pending' = [pending EXCEPT ![p] = <<>>]
    /\ poisoned' = (fifo(p) # <<>>)
    /\ out' = <<>>
    /\ UNCHANGED <<connections, streams, consumed, wrote, odd, debug, rd,
                   opened, crashed, iface, running, call,
                   recv_var, pending_var>>

\* the body of the loop of TcpStream::read on TCB c with a buffer of
\* buflen octets, when incoming.as_slices() has a head of h octets
read(c, buflen, h) ==
    IF is_recv_closed(c) /\ c.incoming = <<>>
    THEN [c |-> c, res |-> "eof", n |-> 0, bytes |-> <<>>]
    ELSE IF c.incoming # <<>>
    THEN LET head == SliceTo(c.incoming, h)
             tail == SliceFrom(c.incoming, h)
             h_read == Min(buflen, Len(head))
             t_read == Min(buflen - h_read, Len(tail))
             n_read == h_read + t_read
             \* buf[..h_read] = head[..h_read], then buf[..t_read] = tail[..]
             buf == [i \in 1..n_read |->
                        IF i <= t_read THEN tail[i]
                        ELSE IF i <= h_read THEN head[i] ELSE 0]
         IN  IF t_read # Len(tail)
             THEN \* copy_from_slice: the two slices differ in length
                  [c |-> c, res |-> "panic", n |-> 0, bytes |-> <<>>]
             ELSE [c |-> [c EXCEPT !.incoming = SliceFrom(c.incoming, n_read)],
                   res |-> "data", n |-> n_read, bytes |-> buf]
    ELSE [c |-> c, res |-> "wait", n |-> 0, bytes |-> <<>>]

\* the head lengths incoming.as_slices() can show: the queue is stored in
\* one piece as long as nothing was drained from it, and may wrap after
HeadLens(q) ==
    IF ~has(q) THEN {0}
    ELSE IF conn(q).incoming = <<>> THEN {0}
    ELSE IF consumed[q] = <<>> THEN {Len(conn(q).incoming)}
    ELSE 1..Len(conn(q).incoming)

\* TcpStream::read, one pass of its loop (the call, or a wake-up) by a
\* thread whose place in the loop is not recorded
StreamRead(q, buflen, h) ==
    /\ ~poisoned
    /\ q \in streams
    /\ IF ~has(q)
       THEN /\ rd' = [rd EXCEPT ![q] = [res |-> "ConnectionAborted", n |-> 0]]
            /\ UNCHANGED <<connections, consumed, poisoned>>
       ELSE LET r == read(conn(q), buflen, h)
            IN  /\ connections' = [connections EXCEPT ![q] = <<r.c>>]
                /\ consumed' = [consumed EXCEPT
                                  ![q] = @ \o SliceTo(conn(q).incoming, r.n)]
                /\ poisoned' = (r.res = "panic")
                /\ rd' = [rd EXCEPT ![q] = [res |-> r.res, n |-> r.n]]
    /\ out' = <<>>
    /\ UNCHANGED <<pending, streams, wrote, odd, debug,
                 opened, crashed, iface, running, call,
                 recv_var, pending_var>>

\* TcpStream::write without the limit of the send queue
stream_write_whole(c, buf) ==
    [c |-> [c EXCEPT !.unacked = @ \o buf], res |-> "Ok", n |-> Len(buf)]

\* the body of TcpStream::write on TCB c with the buffer buf
stream_write(c, buf) ==
    IF Len(c.unacked) >= SENDQUEUE_SIZE
    THEN [c |-> c, res |-> "WouldBlock", n |-> 0]
    ELSE LET nwrite == Min(Len(buf), SENDQUEUE_SIZE - Len(c.unacked))
         IN  [c |-> [c EXCEPT !.unacked = @ \o SliceTo(buf, nwrite)],
              res |-> "Ok", n |-> nwrite]

\* the next n octets of the stream the application writes on flow q
AppBuf(q, n) == [i \in 1..n |-> AppByte(wrote[q] + i)]

\* TcpStream::write of the next n octets of the application's stream
StreamWrite(q, n) ==
    /\ ~poisoned
    /\ q \in streams
    /\ IF ~has(q)
       THEN \* Err(ConnectionAborted)
            UNCHANGED <<connections, wrote>>
       ELSE LET r == stream_write(conn(q), AppBuf(q, n))
            IN  /\ connections' = [connections EXCEPT ![q] = <<r.c>>]
                /\ wrote' = [wrote EXCEPT ![q] = @ + r.n]
    /\ out' = <<>>
    /\ UNCHANGED <<pending, streams, consumed, odd, debug, poisoned, rd,
                 opened, crashed, iface, running, call, recv_var, pending_var>>

\* TcpStream::shutdown: unimplemented!() panics in the calling thread, which
\* holds no lock
Shutdown(q) ==
    /\ q \in streams
    /\ q \notin crashed
    /\ crashed' = crashed \cup {q}
    /\ out' = <<>>
    /\ UNCHANGED <<connections, pending, streams, consumed, wrote, odd, debug,
                   poisoned, rd, opened, iface, running, call,
                   recv_var, pending_var>>

\* Connection::on_tick on the TCB of q, under the manager lock
Tick(q, retransmit) ==
    /\ ~poisoned
    /\ has(q)
    /\ LET r == on_tick(conn(q), retransmit, debug)
       IN  /\ connections' = [connections EXCEPT ![q] = <<r.c>>]
           /\ out' = r.out
           /\ poisoned' = r.panic
    /\ UNCHANGED <<pending, streams, consumed, wrote, odd, debug, rd,
                 opened, crashed, iface, running, call, recv_var, pending_var>>

\* Connection::close on the TCB of q, under the manager lock
Close(q) ==
    /\ ~poisoned
    /\ has(q)
    /\ LET r == close(conn(q))
       IN  connections' = [connections EXCEPT ![q] = <<r.c>>]
    /\ out' = <<>>
    /\ UNCHANGED <<pending, streams, consumed, wrote, odd, debug, poisoned, rd,
                 opened, crashed, iface, running, call, recv_var, pending_var>>

\* TcpListener::accept by the consumer of port p, one pass of its loop: the
\* call, the pass after notify_all, or a spurious wake-up.  The thread parks
\* on pending_var when the FIFO is empty, and panics in unwrap() when the
\* mutex it locks, or gets back from wait, is poisoned
AcceptPass(p) ==
    /\ bound(p)
    /\ pending_var[p] # "panicked"
    /\ IF poisoned
       THEN /\ pending_var' = [pending_var EXCEPT ![p] = "panicked"]
            /\ UNCHANGED <<pending, streams>>
       ELSE IF fifo(p) # <<>>
       THEN /\ pending' = [pending EXCEPT ![p] = <<Tail(fifo(p))>>]
            /\ streams' = streams \cup {Head(fifo(p))}
            /\ pending_var' = [pending_var EXCEPT ![p] = "none"]
       ELSE \* self.ih.pending_var.wait(cm)
            /\ pending_var' = [pending_var EXCEPT ![p] = "parked"]
            /\ UNCHANGED <<pending, streams>>
    /\ out' = <<>>
    /\ UNCHANGED <<connections, consumed, wrote, odd, debug, poisoned, rd,
                   opened, crashed, iface, running, call, recv_var>>

\* TcpStream::read by the consumer of the stream of q, one pass of its loop
\* in the same way; the thread parks on recv_var when nothing can be read
ReadPass(q, buflen, h) ==
    /\ q \in streams
    /\ recv_var[q] # "panicked"
    /\ IF poisoned
       THEN /\ recv_var' = [recv_var EXCEPT ![q] = "panicked"]
            /\ UNCHANGED <<connections, consumed, poisoned, rd>>
       ELSE IF ~has(q)
       THEN /\ rd' = [rd EXCEPT ![q] = [res |-> "ConnectionAborted", n |-> 0]]
            /\ recv_var' = [recv_var EXCEPT ![q] = "none"]
            /\ UNCHANGED <<connections, consumed, poisoned>>
       ELSE LET r == read(conn(q), buflen, h)
            IN  /\ connections' = [connections EXCEPT ![q] = <<r.c>>]
                /\ consumed' = [consumed EXCEPT
                                  ![q] = @ \o SliceTo(conn(q).incoming, r.n)]
                /\ poisoned' = (r.res = "panic")
                /\ rd' = [rd EXCEPT ![q] = [res |-> r.res, n |-> r.n]]
                \* self.ih.recv_var.wait(cm)
                /\ recv_var' = [recv_var EXCEPT
                                  ![q] = CASE r.res = "wait" -> "parked"
                                           [] r.res = "panic" -> "panicked"
                                           [] OTHER -> "none"]
    /\ out' = <<>>
    /\ UNCHANGED <<pending, streams, wrote, odd, debug,
                   opened, crashed, iface, running, call, pending_var>>

\* ------------------------------------------------------------------------
\* The inputs of the model
\* ------------------------------------------------------------------------

\* a segment of the peer; its payload is the peer's stream from seq on
Segment(seq, ackn, syn, fin, ack, wnd, n) ==
    [seq |-> seq, ackn |-> ackn, syn |-> syn, fin |-> fin, ack |-> ack,
     wnd |-> wnd, data |-> PeerData(seq, n)]

\* segments that arrive for a flow that has no TCB: a SYN at 1000 with
\* window 1024, a SYN at the last sequence number with window 0, and a
\* segment without SYN
OpenSegments ==
    {Segment(1000, 0, TRUE, FALSE, FALSE, 1024, 0),
     Segment(SeqMod - 1, 0, TRUE, FALSE, FALSE, 0, 0),
     Segment(1001, 1, FALSE, FALSE, TRUE, 1024, 0)}

\* sequence numbers of the segments that arrive for TCB c away from
\* RCV.nxt: retransmissions, a segment ahead, one far outside the window
OffSeqs(c) ==
    {s \in {wrapping_sub(c.rnxt, d) : d \in 1..(MaxPayload + 1)}
           \cup {wrapping_add(c.rnxt, 1)} :
        wrapping_sub(s, c.irs) <= MaxDelivered + 2}
    \cup {5000}

\* acknowledgment numbers of the segments that arrive for TCB c
AckChoices(c) ==
    {wrapping_sub(c.una, 1), c.una, wrapping_add(c.una, 1), c.nxt,
     wrapping_add(c.nxt, 1)}

\* segments that arrive for TCB c, whose reader has drained `done` octets
FlowSegments(c, done) ==
    LET lens == {n \in 0..MaxPayload : Len(done) + Len(c.incoming) + n <= MaxDelivered}
        near == wrapping_sub(c.rnxt, c.irs) <= MaxDelivered + 1
    IN  \* the peer's stream in order, with every acknowledgment
        {Segment(c.rnxt, a, FALSE, f, TRUE, 0, n) :
            a \in AckChoices(c), f \in BOOLEAN, n \in IF near THEN lens ELSE {0}}
        \* retransmitted and out-of-order data
        \cup {Segment(s, c.una, FALSE, FALSE, TRUE, 0, n) :
            s \in OffSeqs(c), n \in lens}
        \* segments without the ACK bit: the peer's SYN again, a SYN at
        \* RCV.nxt, and a segment without SYN
        \cup {Segment(s, 0, TRUE, FALSE, FALSE, 0, n) :
            s \in {c.irs, c.rnxt}, n \in lens \cap {0, 1}}
        \cup {Segment(c.rnxt, 0, FALSE, FALSE, FALSE, 0, n) : n \in lens \cap {0, 1}}
        \* a SYN|ACK
        \cup {Segment(c.rnxt, c.nxt, TRUE, FALSE, TRUE, 0, 0)}

Segments(q) ==
    IF has(q)
    THEN {seg \in FlowSegments(conn(q), consumed[q]) :
             InOrder(q, seg) \/ odd[q] < MaxOdd}
    ELSE OpenSegments

\* buffer lengths of read, and lengths of write
ReadLens == 1..MaxPayload
WriteLens == 1..MaxWritten

\* lengths of write that fill the send queue
BulkLens == {SENDQUEUE_SIZE - 1, SENDQUEUE_SIZE, SENDQUEUE_SIZE + 1}

\* the peer sends data and the application reads it and closes; the
\* application writes nothing
NextRecv ==
    \/ \E p \in Ports : Bind(p)
    \/ \E q \in Quads : \E seg \in Segments(q) : PacketLoop(q, seg)
    \/ \E p \in Ports : ListenerAccept(p)
    \/ \E q \in Quads : \E n \in ReadLens : \E h \in HeadLens(q) : StreamRead(q, n, h)
    \/ \E q \in Quads : \E rt \in BOOLEAN : Tick(q, rt)
    \/ \E q \in Quads : Close(q)

SpecRecv == Init /\ [][NextRecv]_vars

\* the application writes and closes and the peer acknowledges; the
\* segments of the peer carry no payload
NextSend ==
    \/ \E p \in Ports : Bind(p)
    \/ \E q \in Quads : \E seg \in {s \in Segments(q) : s.data = <<>>} :
          PacketLoop(q, seg)
    \/ \E p \in Ports : ListenerAccept(p)
    \/ \E q \in Quads : \E n \in ReadLens : \E h \in HeadLens(q) : StreamRead(q, n, h)
    \/ \E q \in Quads : \E n \in WriteLens :
          wrote[q] + n <= MaxWritten /\ StreamWrite(q, n)
    \/ \E q \in Quads : \E rt \in BOOLEAN : Tick(q, rt)
    \/ \E q \in Quads : Close(q)

SpecSend == Init /\ [][NextSend]_vars

\* as NextSend, with a peer that sends every segment in order and an
\* application that does not read
NextAck ==
    \/ \E p \in Ports : Bind(p)
    \/ \E q \in Quads : \E seg \in {s \in Segments(q) :
                                       InOrder(q, s) /\ s.data = <<>>} :
          PacketLoop(q, seg)
    \/ \E p \in Ports : ListenerAccept(p)
    \/ \E q \in Quads : \E n \in WriteLens :
          wrote[q] + n <= MaxWritten /\ StreamWrite(q, n)
    \/ \E q \in Quads : \E rt \in BOOLEAN : Tick(q, rt)
    \/ \E q \in Quads : Close(q)

SpecAck == Init /\ [][NextAck]_vars

\* as NextRecv, with a peer that sends every segment in order
NextClose ==
    \/ \E p \in Ports : Bind(p)
    \/ \E q \in Quads : \E seg \in {s \in Segments(q) : InOrder(q, s)} :
          PacketLoop(q, seg)
    \/ \E p \in Ports : ListenerAccept(p)
    \/ \E q \in Quads : \E n \in ReadLens : \E h \in HeadLens(q) : StreamRead(q, n, h)
    \/ \E q \in Quads : \E rt \in BOOLEAN : Tick(q, rt)
    \/ \E q \in Quads : Close(q)

SpecClose == Init /\ [][NextClose]_vars

\* the application writes until the send queue is full and beyond, on_tick
\* sends and the peer acknowledges all it has received
NextQueue ==
    \/ \E p \in Ports : Bind(p)
    \/ \E q \in Quads : \E seg \in {s \in Segments(q) :
                                       /\ InOrder(q, s) /\ s.data = <<>> /\ ~s.fin
                                       /\ has(q) => s.ackn = conn(q).nxt} :
          PacketLoop(q, seg)
    \/ \E p \in Ports : ListenerAccept(p)
    \/ \E q \in Quads : \E n \in BulkLens :
          wrote[q] + n <= 2 * SENDQUEUE_SIZE + MaxWritten /\ StreamWrite(q, n)
    \/ \E q \in Quads : \E rt \in BOOLEAN : Tick(q, rt)

SpecQueue == Init /\ [][NextQueue]_vars

\* The bulk sender that may also close its stream: a FIN next to a full
\* send queue, and writes that follow the FIN
NextWindow ==
    \/ NextQueue
    \/ \E q \in Quads : Close(q)

SpecWindow == Init /\ [][NextWindow]_vars

\* One consumer in accept on each listener and one in read on each stream,
\* with a peer that sends in order; the stream is dropped only while its
\* consumer is not inside read
NextWait ==
    \/ \E p \in Ports : Bind(p)
    \/ \E q \in Quads : \E seg \in {s \in Segments(q) : InOrder(q, s)} :
          PacketLoop(q, seg)
    \/ \E p \in Ports : AcceptPass(p)
    \/ \E q \in Quads : \E n \in ReadLens : \E h \in HeadLens(q) : ReadPass(q, n, h)
    \/ \E q \in Quads : \E rt \in BOOLEAN : Tick(q, rt)
    \/ \E q \in Quads : recv_var[q] = "none" /\ Close(q)

\* a pass of the consumer of port p that notify_all has made runnable
WokenAccept(p) == pending_var[p] = "woken" /\ AcceptPass(p)

\* a pass of the consumer of the stream of q that notify_all has made
\* runnable
WokenRead(q) ==
    recv_var[q] = "woken" /\ \E n \in ReadLens : \E h \in HeadLens(q) : ReadPass(q, n, h)

\* the scheduler runs a thread that notify_all has woken; nothing obliges
\* the peer to send, the application to call, or a wake-up to be spurious
SpecWait ==
    /\ Init /\ [][NextWait]_vars
    /\ \A p \in Ports : WF_vars(WokenAccept(p))
    /\ \A q \in Quads : WF_vars(WokenRead(q))

\* three flows to two ports: the peers open them and acknowledge, the
\* application binds the ports, accepts, shuts its streams down and drops
\* its listeners
NextManager ==
    \/ \E p \in AllPorts : Bind(p)
    \/ \E q \in AllQuads : \E seg \in {s \in Segments(q) :
                                          /\ InOrder(q, s) /\ s.data = <<>> /\ ~s.fin
                                          /\ has(q) => s.ackn = conn(q).nxt} :
          PacketLoop(q, seg)
    \/ \E p \in AllPorts : ListenerAccept(p)
    \/ \E q \in AllQuads : Shutdown(q)
    \/ \E p \in AllPorts : ListenerDrop(p)

SpecManager == Init /\ [][NextManager]_vars

\* one flow, with the end of the Interface: the application drops it, and
\* join returns once the packet_loop thread has ended
NextDrop ==
    \/ \E p \in Ports : Bind(p)
    \/ \E q \in Quads : \E seg \in {s \in Segments(q) :
                                       /\ InOrder(q, s) /\ s.data = <<>> /\ ~s.fin
                                       /\ has(q) => s.ackn = conn(q).nxt} :
          PacketLoop(q, seg)
    \/ \E p \in Ports : ListenerAccept(p)
    \/ \E p \in Ports : ListenerDrop(p)
    \/ \E q \in Quads : \E rt \in BOOLEAN : Tick(q, rt)
    \/ RecvFails
    \/ LoopLockFails
    \/ InterfaceDrop
    \/ JoinReturn

\* the scheduler lets join return once the thread has ended; nothing
\* obliges the tunnel to deliver a frame or to fail
SpecDrop == Init /\ [][NextDrop]_vars /\ WF_vars(JoinReturn)

\* sequence numbers for is_between_wrapped: those of the examples in its
\* documentation, and numbers around half the ring and at its end
RingPoints ==
    {0, 10, 11, 20, 21, 30, 50, SeqMod \div 2, SeqMod \div 2 + 10,
     SeqMod \div 2 + 30, SeqMod - 1}

InitWrap ==
    /\ Boot
    /\ call \in {[x |-> x, start |-> st, end |-> en, res |-> <<>>, cmp |-> <<>>] :
                    x \in RingPoints, st \in RingPoints, en \in RingPoints}

NextWrap ==
    \/ Between
    \/ BetweenCmp

\* is_between_wrapped alone, on every triple of RingPoints
SpecWrap == InitWrap /\ [][NextWrap]_vars

\* ------------------------------------------------------------------------
\* Properties
\* ------------------------------------------------------------------------

\* the segments against which a property inspects the TCB of flow q
Probes(q) == FlowSegments(conn(q), consumed[q])

\* a bare ACK as write(nic, seq, 0) emits it
BareAck(seq, ackn) ==
    [seq |-> seq, ackn |-> ackn, syn |-> FALSE, fin |-> FALSE, ack |-> TRUE,
     wnd |-> wnd_size, data |-> <<>>]

\* C1: on_packet judges a segment acceptable iff (slen = 0, wnd = 0: seq =
\* RCV.nxt), (slen = 0, wnd > 0: seq in (RCV.nxt - 1, w_end)), (slen > 0,
\* wnd = 0: never), (slen > 0, wnd > 0: seq or seq + slen - 1 in
\* (RCV.nxt - 1, w_end)); a segment that is not acceptable by this rule,
\* like the 1-octet segment at seq = 5000, changes neither incoming nor
\* RCV.nxt
C1_Acceptability ==
    \A q \in Quads : (has(q) /\ ~poisoned) =>
        \A seg \in Probes(q) :
            LET c == conn(q)
                lo == wrapping_sub(c.rnxt, 1)
                w_end == wrapping_add(c.rnxt, c.rwnd)
                last == wrapping_add(seg.seq, slen(seg) - 1)
                acceptable ==
                    IF slen(seg) = 0
                    THEN IF c.rwnd = 0 THEN seg.seq = c.rnxt
                         ELSE is_between_wrapped(seg.seq, lo, w_end)
                    ELSE IF c.rwnd = 0 THEN FALSE
                    ELSE \/ is_between_wrapped(seg.seq, lo, w_end)
                         \/ is_between_wrapped(last, lo, w_end)
                r == on_packet(c, seg)
            IN  /\ okay(c, seg) <=> acceptable
                /\ ~acceptable => (r.c.incoming = c.incoming /\ r.c.rnxt = c.rnxt)

\* C2: the octets the reader has drained followed by the octets of incoming
\* are a prefix of the peer's stream, which starts at RCV.irs + 1: in
\* order, none twice, none skipped
C2_StreamIntegrity ==
    \A q \in Quads : (has(q) /\ ~poisoned) =>
        LET got == consumed[q] \o conn(q).incoming
        IN  \A i \in 1..Len(got) :
                got[i] = PeerByte(wrapping_add(conn(q).irs, i))

\* C3: in Estab, FinWait1 and FinWait2 an accepted segment with the ACK bit
\* and a payload appends payload[skip..] to incoming when skip = RCV.nxt -
\* seq is at most the payload's length and nothing when it is more, leaves
\* RCV.nxt = seq + payload.len and emits exactly one bare ACK with seq =
\* SND.nxt and ack = RCV.nxt
C3_PayloadDelivery ==
    \A q \in Quads : (has(q) /\ ~poisoned) =>
        \A seg \in Probes(q) :
            LET c == conn(q)
                skip == wrapping_sub(c.rnxt, seg.seq)
                r == on_packet(c, seg)
            IN  (/\ c.state \in {"Estab", "FinWait1", "FinWait2"}
                 /\ okay(c, seg) /\ seg.ack /\ ~seg.fin /\ seg.data # <<>>)
                => /\ ~r.panic
                   /\ r.c.incoming = c.incoming \o
                          (IF skip <= Len(seg.data)
                           THEN SliceFrom(seg.data, skip) ELSE <<>>)
                   /\ r.c.rnxt = wrapping_add(seg.seq, Len(seg.data))
                   /\ r.out = <<BareAck(r.c.nxt, r.c.rnxt)>>

\* C4: for a flow without TCB and a bound port, a segment with SYN, whatever
\* its sequence number, creates a TCB in SynRecvd with RCV.irs = seq,
\* RCV.nxt = seq + 1 on the ring, SND.iss = SND.una = 0 and SND.nxt = 1, the
\* SYN flag cleared, and emits exactly one SYN|ACK with seq = 0, ack =
\* RCV.nxt and window 1024; a segment without SYN creates no TCB and emits
\* nothing
C4_PassiveOpen ==
    [][\A q \in Quads : \A seg \in OpenSegments :
          (~has(q) /\ bound(q.dst) /\ PacketLoop(q, seg)) =>
              IF seg.syn
              THEN /\ ~poisoned'
                   /\ has(q)'
                   /\ conn(q)'.state = "SynRecvd"
                   /\ conn(q)'.irs = seg.seq
                   /\ conn(q)'.rnxt = (seg.seq + 1) % SeqMod
                   /\ conn(q)'.iss = 0 /\ conn(q)'.una = 0 /\ conn(q)'.nxt = 1
                   /\ ~conn(q)'.syn
                   /\ out' = <<[seq |-> 0, ackn |-> conn(q)'.rnxt, syn |-> TRUE,
                                fin |-> FALSE, ack |-> TRUE, wnd |-> 1024,
                                data |-> <<>>]>>
              ELSE ~has(q)' /\ out' = <<>> /\ ~poisoned'
      ]_vars

\* the segment of the peer that completes the handshake of a flow opened
\* with SYN seq = 1000: ACK seq = 1001 ack = 1
HandshakeAck == Segment(1001, 1, FALSE, FALSE, TRUE, 0, 0)

C6_AckExact ==
    \A q \in Quads : (has(q) /\ ~poisoned) =>
        \A seg \in Probes(q) :
            LET c == conn(q)
                r == on_packet(c, seg)
                d == wrapping_sub(seg.ackn, c.una)
                inside == d >= 1 /\ d <= wrapping_sub(c.nxt, c.una)
                data_start == wrapping_add(c.una, IF c.una = c.iss THEN 1 ELSE 0)
                k == wrapping_sub(seg.ackn, data_start)
            IN  (c.state \in {"Estab", "FinWait1", "FinWait2"} /\ okay(c, seg) /\ seg.ack)
                => IF inside
                   THEN /\ Len(c.unacked) - Len(r.c.unacked) = k
                        /\ r.c.unacked = SliceFrom(c.unacked, k)
                        /\ r.c.una = seg.ackn
                   ELSE r.c.una = c.una /\ r.c.unacked = c.unacked

\* C6, amended: such an ACK removes min(ack - data_start, |unacked|) octets
\* from the front of unacked (ack - data_start exceeds |unacked| by one when
\* the ACK also covers the FIN) and sets SND.una = ack; any other ack leaves
\* SND.una and unacked unchanged
C6_AckProcessing ==
    \A q \in Quads : (has(q) /\ ~poisoned) =>
        \A seg \in Probes(q) :
            LET c == conn(q)
                r == on_packet(c, seg)
                d == wrapping_sub(seg.ackn, c.una)
                inside == d >= 1 /\ d <= wrapping_sub(c.nxt, c.una)
                data_start == wrapping_add(c.una, IF c.una = c.iss THEN 1 ELSE 0)
                k == Min(wrapping_sub(seg.ackn, data_start), Len(c.unacked))
            IN  (c.state \in {"Estab", "FinWait1", "FinWait2"} /\ okay(c, seg) /\ seg.ack)
                => IF inside
                   THEN /\ Len(c.unacked) - Len(r.c.unacked) = k
                        /\ r.c.unacked = SliceFrom(c.unacked, k)
                        /\ r.c.una = seg.ackn
                   ELSE r.c.una = c.una /\ r.c.unacked = c.unacked

\* C6, the case: the application wrote two octets and closed, one segment
\* carried both and the FIN at sequence number 3, and the peer's ACK with
\* ack = 4 emptied unacked
C6_Witness ==
    \E q \in Quads :
        /\ has(q) /\ ~poisoned
        /\ conn(q).state = "FinWait2"
        /\ wrote[q] = 2 /\ conn(q).unacked = <<>>
        /\ conn(q).closed_at = Some(3) /\ conn(q).una = 4

\* the FIN|ACK that on_tick emits for a closed stream with nothing to send
FinAck(seq, ackn) ==
    [seq |-> seq, ackn |-> ackn, syn |-> FALSE, fin |-> TRUE, ack |-> TRUE,
     wnd |-> wnd_size, data |-> <<>>]

\* C7: from Estab with empty unacked, SND.una = SND.nxt = 1 and RCV.nxt =
\* 1006, close leaves FinWait1 with closed set; the next on_tick emits
\* exactly one FIN|ACK seq = 1 ack = 1006 and sets closed_at = 1; the peer's
\* ACK with ack = 2 sets SND.una = 2 and moves FinWait1 to FinWait2; the
\* peer's FIN|ACK seq = 1006 advances RCV.nxt to 1007, emits ACK seq = 2
\* ack = 1007 and moves to TimeWait; read then returns 0
C7_GracefulClose ==
    [][\A q \in Quads : (has(q) /\ ~poisoned) =>
          LET c == conn(q)
              base == c.irs = 1000 /\ c.rnxt = 1006 /\ c.unacked = <<>>
          IN  /\ (/\ base /\ c.state = "Estab" /\ c.una = 1 /\ c.nxt = 1
                  /\ ~c.closed /\ Close(q))
                 => /\ conn(q)'.state = "FinWait1" /\ conn(q)'.closed
                    /\ conn(q)'.closed_at = None /\ out' = <<>>
              /\ \A rt \in BOOLEAN :
                 (/\ base /\ c.state = "FinWait1" /\ c.closed /\ c.closed_at = None
                  /\ c.una = 1 /\ c.nxt = 1 /\ Tick(q, rt))
                 => /\ ~poisoned' /\ out' = <<FinAck(1, 1006)>>
                    /\ conn(q)'.closed_at = Some(1) /\ conn(q)'.nxt = 2
                    /\ conn(q)'.state = "FinWait1"
              /\ (/\ base /\ c.state = "FinWait1" /\ c.closed_at = Some(1)
                  /\ c.una = 1 /\ c.nxt = 2
                  /\ PacketLoop(q, Segment(1006, 2, FALSE, FALSE, TRUE, 0, 0)))
                 => /\ ~poisoned' /\ out' = <<>>
                    /\ conn(q)'.una = 2 /\ conn(q)'.state = "FinWait2"
              /\ (/\ base /\ c.state = "FinWait2" /\ c.closed_at = Some(1)
                  /\ c.una = 2 /\ c.nxt = 2
                  /\ PacketLoop(q, Segment(1006, 2, FALSE, TRUE, TRUE, 0, 0)))
                 => /\ ~poisoned' /\ out' = <<BareAck(2, 1007)>>
                    /\ conn(q)'.rnxt = 1007 /\ conn(q)'.state = "TimeWait"
              /\ \A n \in ReadLens : \A h \in HeadLens(q) :
                 (/\ c.state = "TimeWait" /\ c.incoming = <<>> /\ StreamRead(q, n, h))
                 => rd'[q] = [res |-> "eof", n |-> 0]
      ]_vars

\* C7, the case: the flow opened at 1000 took five octets, was closed, its
\* FIN at sequence number 1 was acknowledged, the peer's FIN was taken at
\* 1006, and read returned 0
C7_Witness ==
    \E q \in Quads :
        /\ has(q) /\ ~poisoned
        /\ conn(q).state = "TimeWait"
        /\ conn(q).irs = 1000 /\ conn(q).rnxt = 1007
        /\ conn(q).closed_at = Some(1) /\ conn(q).una = 2 /\ conn(q).nxt = 2
        /\ rd[q] = [res |-> "eof", n |-> 0]

\* C8: a FIN (on a segment with the ACK bit and no payload) is acted on
\* exactly when the state is FinWait2 once the segment's own ACK has been
\* processed: RCV.nxt advances by 1, one ACK is emitted and the state
\* becomes TimeWait. In SynRecvd, Estab and FinWait1 whose FIN this segment
\* does not acknowledge, the FIN changes neither state nor RCV.nxt,
\* is_recv_closed stays false and read does not return 0
C8_FinProcessing ==
    \A q \in Quads : (has(q) /\ ~poisoned) =>
        \A seg \in Probes(q) :
            LET c == conn(q)
                r == on_packet(c, seg)
                none == [seg EXCEPT !.fin = FALSE]
                d == wrapping_sub(seg.ackn, c.una)
                inside == d >= 1 /\ d <= wrapping_sub(c.nxt, c.una)
                una1 == IF inside THEN seg.ackn ELSE c.una
                finwait2 ==
                    \/ c.state = "FinWait2"
                    \/ /\ c.state = "FinWait1" /\ is_some(c.closed_at)
                       /\ una1 = wrapping_add(c.closed_at[1], 1)
            IN  (okay(c, seg) /\ seg.ack /\ seg.fin /\ seg.data = <<>>
                 /\ c.state # "TimeWait")
                => IF finwait2
                   THEN /\ ~r.panic
                        /\ r.c.rnxt = wrapping_add(c.rnxt, 1)
                        /\ r.out = <<BareAck(r.c.nxt, r.c.rnxt)>>
                        /\ r.c.state = "TimeWait"
                   ELSE /\ ~r.panic
                        /\ r.c.state = on_packet(c, none).c.state
                        /\ r.c.state \in {"SynRecvd", "Estab", "FinWait1"}
                        /\ r.c.rnxt = c.rnxt
                        /\ ~is_recv_closed(r.c)
                        /\ \A n \in ReadLens : \A h \in 1..Len(r.c.incoming) \cup {0} :
                               read(r.c, n, h).res # "eof"

\* C9: no step moves RCV.nxt backward on the ring or decreases RCV.nxt +
\* RCV.wnd, and a segment advances RCV.nxt by at most its length (payload
\* plus one for SYN and one for FIN), a SYN without the ACK bit included
C9_RcvNxtMonotone ==
    [][\A q \in Quads : (has(q) /\ ~poisoned /\ ~poisoned') =>
          LET c == conn(q)
              adv == wrapping_sub(conn(q)'.rnxt, c.rnxt)
              edge == wrapping_sub(wrapping_add(conn(q)'.rnxt, conn(q)'.rwnd),
                                   wrapping_add(c.rnxt, c.rwnd))
          IN  /\ adv < SeqMod \div 2
              /\ edge < SeqMod \div 2
              /\ \A seg \in Segments(q) : PacketLoop(q, seg) => adv <= slen(seg)
      ]_vars

\* C10: the receive window of the acceptability check is 1024 from the
\* creation of the TCB on, whatever window the peer's SYN carried
C10_RcvWndFixed ==
    \A q \in Quads : has(q) => conn(q).rwnd = 1024

\* C11: whenever on_packet judges a segment unacceptable, in every state,
\* SynRecvd with SND.una = iss, SND.nxt = iss + 1 and empty unacked
\* included, it returns normally, emits exactly one segment with seq =
\* SND.nxt and ack = RCV.nxt, without payload, SYN or FIN, and leaves state,
\* RCV.nxt, SND.una, SND.nxt, incoming and unacked unchanged
C11_Unacceptable ==
    \A q \in Quads : (has(q) /\ ~poisoned) =>
        \A seg \in Probes(q) :
            LET c == conn(q)
                r == on_packet(c, seg)
            IN  ~okay(c, seg) =>
                    /\ ~r.panic
                    /\ r.out = <<BareAck(c.nxt, c.rnxt)>>
                    /\ r.c.state = c.state /\ r.c.rnxt = c.rnxt
                    /\ r.c.una = c.una /\ r.c.nxt = c.nxt
                    /\ r.c.incoming = c.incoming /\ r.c.unacked = c.unacked

\* walking forward on the ring from start, x comes strictly before end
WalkBefore(x, start, end) ==
    /\ 0 < wrapping_sub(x, start)
    /\ wrapping_sub(x, start) < wrapping_sub(end, start)

\* C12: for x, start and end on the ring, x.is_between_wrapped(start, end)
\* is true iff walking forward from start reaches x strictly before it
\* reaches end, also when that arc is longer than half the ring, as for
\* (start = 30, x = 50, end = 11) and (start = 50, x = 10, end = 21)
C12_BetweenWrapped ==
    (call.res # <<>> /\ call.x # call.start /\ call.start # call.end) =>
        call.res[1] = WalkBefore(call.x, call.start, call.end)

\* C13: TcpStream::read with incoming non-empty returns n = min(buf.len,
\* |incoming|), fills buf[0..n] with the first n octets of incoming in
\* order and removes exactly those, however incoming is stored as head and
\* tail; with incoming empty it returns 0 when the receive side is closed and
\* waits otherwise
C13_Read ==
    \A q \in Quads : (has(q) /\ q \in streams /\ ~poisoned) =>
        \A buflen \in ReadLens : \A h \in HeadLens(q) :
            LET c == conn(q)
                r == read(c, buflen, h)
                n == Min(buflen, Len(c.incoming))
            IN  IF c.incoming # <<>>
                THEN /\ r.res = "data"
                     /\ r.n = n
                     /\ r.bytes = SliceTo(c.incoming, n)
                     /\ r.c.incoming = SliceFrom(c.incoming, n)
                ELSE IF is_recv_closed(c)
                THEN r.res = "eof" /\ r.n = 0 /\ r.c = c
                ELSE r.res = "wait" /\ r.c = c

\* C14: TcpStream::write with |unacked| >= 1024 returns WouldBlock and
\* leaves unacked unchanged; otherwise it appends the first min(buf.len,
\* 1024 - |unacked|) octets of buf to the back of unacked and returns that
\* count; and |unacked| <= 1024 in every state that write, on_packet and
\* on_tick reach
C14_Write ==
    \A q \in Quads : has(q) =>
        /\ Len(conn(q).unacked) <= SENDQUEUE_SIZE
        /\ \A len \in BulkLens \cup WriteLens :
              LET c == conn(q)
                  buf == AppBuf(q, len)
                  r == stream_write(c, buf)
                  n == Min(len, SENDQUEUE_SIZE - Len(c.unacked))
              IN  IF Len(c.unacked) >= SENDQUEUE_SIZE
                  THEN r.res = "WouldBlock" /\ r.c = c
                  ELSE /\ r.res = "Ok" /\ r.n = n
                       /\ r.c.unacked = c.unacked \o SliceTo(buf, n)
                       /\ r.c = [c EXCEPT !.unacked = r.c.unacked]

\* the send queue is full after a write of which only the first octets
\* were taken, and some octet of it has been sent and acknowledged before
C14_Witness ==
    \E q \in Quads :
        /\ has(q) /\ q \in streams
        /\ Len(conn(q).unacked) = SENDQUEUE_SIZE
        /\ wrote[q] > SENDQUEUE_SIZE

\* the place of quad q in the order in which packet_loop accepted the SYNs
OpenedAt(q) == CHOOSE i \in 1..Len(opened) : opened[i] = q

\* the quads opened to port p for which accept has not returned a stream
Waiting(p) ==
    {q \in AllQuads : q.dst = p /\ q \notin streams
                      /\ \E i \in 1..Len(opened) : opened[i] = q}

\* C15: TcpListener::accept returns the streams of the connections opened
\* to its own port in the order in which packet_loop processed their SYNs,
\* never a quad of another port, and does not return while the FIFO of its
\* port is empty
C15_AcceptOrder ==
    [][\A p \in AllPorts : ListenerAccept(p) =>
          IF fifo(p) = <<>>
          THEN streams' = streams
          ELSE \E q \in Waiting(p) :
                  /\ streams' = streams \cup {q}
                  /\ q.dst = p
                  /\ \A o \in Waiting(p) : OpenedAt(q) <= OpenedAt(o)
                  /\ \A o \in AllPorts \ {p} : pending'[o] = pending[o]]_vars

\* accept has returned the flow that was opened first to port 9000, the
\* flow opened after it to that port is still queued, and a flow opened
\* between the two is queued for port 9001
C15_Witness ==
    /\ opened = <<Quad(4001, 9000), Quad(4002, 9001), Quad(4000, 9000)>>
    /\ streams = {Quad(4001, 9000)}
    /\ bound(9000) /\ fifo(9000) = <<Quad(4000, 9000)>>
    /\ bound(9001) /\ fifo(9001) = <<Quad(4002, 9001)>>

\* C16: packet_loop hands a segment whose quad is in connections to the
\* on_packet of that TCB and changes no other TCB and no FIFO of pending; a
\* segment with an unknown quad, a bound destination port and SYN inserts
\* exactly one TCB and pushes the quad at the back of the FIFO of that
\* port; a segment with an unknown quad and no SYN, or to a port that is not
\* bound, leaves connections and pending unchanged and emits nothing
C16_Demultiplex ==
    [][\A q \in AllQuads : \A seg \in Segments(q) : PacketLoop(q, seg) =>
          IF has(q)
          THEN /\ connections' = [connections EXCEPT
                                    ![q] = <<on_packet(conn(q), seg).c>>]
               /\ out' = on_packet(conn(q), seg).out
               /\ pending' = pending
          ELSE IF bound(q.dst) /\ seg.syn
          THEN /\ has(q)'
               /\ \A o \in AllQuads \ {q} : connections'[o] = connections[o]
               /\ pending' = [pending EXCEPT ![q.dst] = <<Append(fifo(q.dst), q)>>]
          ELSE /\ connections' = connections
               /\ pending' = pending
               /\ out' = <<>>]_vars

\* C17: TcpStream::shutdown(Write) on a TCB in SynRecvd or Estab sets closed
\* and moves it to FinWait1; in FinWait1 or FinWait2 it succeeds and leaves
\* the state as it is; in any other state it returns the error NotConnected
\* and leaves the state as it is
C17_Shutdown ==
    [][\A q \in AllQuads : (Shutdown(q) /\ has(q)) =>
          LET c == conn(q)
          IN  IF c.state \in {"SynRecvd", "Estab"}
              THEN /\ q \notin crashed'
                   /\ conn(q)'.closed /\ conn(q)'.state = "FinWait1"
              ELSE IF c.state \in {"FinWait1", "FinWait2"}
              THEN /\ q \notin crashed'
                   /\ conn(q)'.closed /\ conn(q)'.state = c.state
              ELSE /\ q \notin crashed'
                   /\ conn(q)'.state = c.state]_vars

\* C18: dropping a TcpListener removes the FIFO of its port from pending,
\* so that the port can be bound again, and requests the termination of
\* every TCB that was queued and never accepted; the drop completes, also
\* when the FIFO is not empty, and releases the manager lock for the others
C18_ListenerDrop ==
    [][\A p \in AllPorts : ListenerDrop(p) =>
          /\ ~bound(p)'
          /\ ~poisoned'
          /\ \A i \in 1..Len(fifo(p)) :
                LET q == fifo(p)[i]
                IN  ~has(q)' \/ conn(q)'.closed]_vars

\* C19: once the drop of the Interface has begun, the packet_loop thread
\* eventually stops and the join of the drop eventually returns, also when
\* no further frame arrives
C19_InterfaceDrop ==
    (iface = "dropping") ~> (~running /\ iface = "dropped")

\* a SYN without ACK whose sequence number is one below the peer's initial
\* sequence number
StraySyn(c) == Segment(wrapping_sub(c.irs, 1), 0, TRUE, FALSE, FALSE, 0, 0)

\* C20: in every reachable state SND.una <= SND.nxt <= SND.una + |unacked|
\* + (1 if a FIN has been sent), wrap-wise, also right after accept and
\* before the SYN is acknowledged; and RCV.nxt - RCV.irs >= 1
C20_SendSequence ==
    \A q \in Quads : (has(q) /\ ~poisoned) =>
        LET c == conn(q)
            sent == wrapping_sub(c.nxt, c.una)
            r == on_packet(c, StraySyn(c))
        IN  /\ sent < SeqMod \div 2
            /\ sent <= Len(c.unacked) + (IF is_some(c.closed_at) THEN 1 ELSE 0)
            /\ wrapping_sub(c.rnxt, c.irs) >= 1
            /\ wrapping_sub(c.rnxt, c.irs) < SeqMod \div 2
            \* and in the state that follows a stray SYN
            /\ ~r.panic => wrapping_sub(r.c.rnxt, r.c.irs) >= 1

\* C21 as stated: between operations, a TCB in FinWait1, FinWait2 or
\* TimeWait has closed = true and closed_at set, also right after close and
\* before the next on_tick
C21_ClosedAtSet ==
    \A q \in Quads : (has(q) /\ ~poisoned) =>
        (conn(q).state \in {"FinWait1", "FinWait2", "TimeWait"}
            => conn(q).closed /\ is_some(conn(q).closed_at))

\* C21, amended: a TCB in FinWait1, FinWait2 or TimeWait has closed = true,
\* and a TCB in FinWait2 or TimeWait has closed_at set; in FinWait1
\* closed_at is absent until an on_tick assigns the FIN its sequence number
C21_ClosedFlags ==
    \A q \in Quads : (has(q) /\ ~poisoned) =>
        /\ conn(q).state \in {"FinWait1", "FinWait2", "TimeWait"} => conn(q).closed
        /\ conn(q).state \in {"FinWait2", "TimeWait"} => is_some(conn(q).closed_at)

\* C21, the case: a TCB has gone through close, the FIN and its
\* acknowledgment, and the peer's FIN
C21_Witness ==
    \E q \in Quads :
        /\ has(q) /\ ~poisoned
        /\ conn(q).state = "TimeWait"
        /\ conn(q).closed /\ is_some(conn(q).closed_at)

\* C22: whatever the order of write, close, on_tick and on_packet, a segment
\* with FIN is emitted only after close; closed_at, once set, is the
\* sequence number right after the last octet the application buffered and
\* the sequence number of every emitted FIN; and no octet of payload is
\* emitted at or beyond closed_at, also when write is called after the FIN
\* was assigned
C22_FinEmission ==
    \A q \in Quads : (has(q) /\ ~poisoned) =>
        LET c == conn(q)
        IN  /\ is_some(c.closed_at) =>
                  c.closed_at[1] = wrapping_add(wrapping_add(c.iss, 1), wrote[q])
            /\ \A i \in 1..Len(out) :
                  LET seg == out[i]
                      end == wrapping_add(seg.seq, Len(seg.data))
                  IN  /\ seg.fin => /\ c.closed /\ is_some(c.closed_at)
                                    /\ end = c.closed_at[1]
                      /\ (is_some(c.closed_at) /\ seg.data # <<>>) =>
                            wrapping_sub(c.closed_at[1], end) < SeqMod \div 2

\* C23: on_tick in FinWait2 and TimeWait emits nothing and changes no field
\* of the TCB; when it does not retransmit it emits a segment only if there
\* is unsent data, or a FIN without sequence number, and room in the window;
\* on an idle Estab TCB (unacked empty, not closed) it emits nothing and
\* changes no field
C23_TickIdle ==
    \A q \in Quads : (has(q) /\ ~poisoned) =>
        LET c == conn(q)
            r == on_tick(c, FALSE, debug)
            n_unacked == wrapping_sub(unwrap_or(c.closed_at, c.nxt), c.una)
        IN  /\ c.state \in {"FinWait2", "TimeWait"} =>
                  \A rt \in BOOLEAN :
                      on_tick(c, rt, debug) = Ret(c, <<>>, FALSE)
            /\ r.out # <<>> =>
                  /\ \/ Len(c.unacked) > n_unacked
                     \/ c.closed /\ ~is_some(c.closed_at)
                  /\ c.swnd > n_unacked
            /\ (c.state = "Estab" /\ c.unacked = <<>> /\ ~c.closed) =>
                  r = Ret(c, <<>>, FALSE)

\* C24: on_tick never emits an octet of payload at a sequence number at or
\* beyond SND.una + SND.wnd; a retransmission resends min(|unacked|,
\* SND.wnd) octets from SND.una; and a FIN is attached to a segment only if
\* the sequence number of the FIN lies inside the window
C24_SendWindow ==
    \A q \in Quads : (has(q) /\ ~poisoned) =>
        \A rt \in BOOLEAN :
            LET c == conn(q)
                r == on_tick(c, rt, debug)
                retransmits == rt /\ \E s \in c.send_times : s >= c.una
            IN  (~r.panic /\ r.out # <<>>) =>
                    LET seg == r.out[1]
                        end == wrapping_add(seg.seq, Len(seg.data))
                    IN  /\ seg.data # <<>> =>
                              /\ wrapping_sub(seg.seq, c.una) < c.swnd
                              /\ wrapping_sub(end, c.una) <= c.swnd
                        /\ retransmits =>
                              /\ seg.seq = c.una
                              /\ Len(seg.data) = Min(Len(c.unacked), c.swnd)
                        /\ seg.fin => wrapping_sub(end, c.una) < c.swnd

\* C25: an ACK that advances SND.una over payload in flight takes one round-trip sample from every
\* send_times entry it acknowledges, the entry of the segment sent at the
\* old SND.una included, and removes the entry (the code samples and removes
\* in the same step of retain): no entry with a sequence number in
\* [old SND.una, ack) is left
C25_RttSamples ==
    \A q \in Quads : (has(q) /\ ~poisoned) =>
        \A seg \in Probes(q) :
            LET c == conn(q)
                r == on_packet(c, seg)
                d == wrapping_sub(seg.ackn, c.una)
                inside == d >= 1 /\ d <= wrapping_sub(c.nxt, c.una)
            IN  (/\ c.state \in {"Estab", "FinWait1", "FinWait2"}
                 /\ okay(c, seg) /\ seg.ack /\ inside /\ ~r.panic
                 /\ c.una # c.iss /\ c.unacked # <<>>)
                => \A s \in c.send_times :
                       wrapping_sub(s, c.una) < d => s \notin r.c.send_times

\* C26: no wake-up is lost.  A consumer that is inside read on a stream
\* whose TCB has payload in incoming or is in TimeWait, or inside accept on
\* a port whose FIFO holds a quad, eventually returns (read with data or
\* end of stream, accept with a stream); and read returns n > 0, and accept
\* returns, only in a pass in which the predicate held under the lock
C26_NoLostWakeup ==
    /\ \A q \in Quads :
          (/\ recv_var[q] \in {"parked", "woken"} /\ has(q)
           /\ (conn(q).incoming # <<>> \/ is_recv_closed(conn(q))))
          ~> (recv_var[q] = "none" /\ rd[q].res \in {"data", "eof"})
    /\ \A p \in Ports :
          (pending_var[p] \in {"parked", "woken"} /\ bound(p) /\ fifo(p) # <<>>)
          ~> (pending_var[p] = "none")
    /\ [][\A q \in Quads : \A n \in ReadLens : \A h \in HeadLens(q) :
             (ReadPass(q, n, h) /\ rd'[q].res = "data")
             => (has(q) /\ conn(q).incoming # <<>> /\ rd'[q].n > 0)]_vars
    /\ [][\A p \in Ports :
             (AcceptPass(p) /\ pending_var'[p] = "none")
             => (fifo(p) # <<>> /\ streams' = streams \cup {Head(fifo(p))})]_vars

\* C27: on_packet never aborts: for every reachable TCB and every inbound
\* segment it returns without tripping an assertion (an ACK-less SYN has no
\* payload; an over-trimmed payload has skip = len + 1) and without an
\* out-of-range slice in write
C27_NoAbort ==
    \A q \in Quads : (has(q) /\ ~poisoned) =>
        \A seg \in Probes(q) : ~on_packet(conn(q), seg).panic

\* C28: the arithmetic of on_tick never underflows: in SynRcvd, Estab and
\* FinWait1 the number of octets in flight, n_unacked = closed_at (or
\* SND.nxt) - SND.una, is at most |unacked| and at most SND.wnd, also at a
\* tick right after accept, before the SYN is acknowledged
C28_TickArithmetic ==
    \A q \in Quads : (has(q) /\ ~poisoned) =>
        LET c == conn(q)
            n_unacked == wrapping_sub(unwrap_or(c.closed_at, c.nxt), c.una)
        IN  c.state \in {"SynRecvd", "Estab", "FinWait1"}
            => /\ n_unacked <= Len(c.unacked)
               /\ n_unacked <= c.swnd

\* C29: the outbound octet stream is intact: every octet of payload that a
\* segment carries at sequence number s is the octet the application wrote
\* at offset s - (iss + 1) of its stream, in a first transmission and in a
\* retransmission, also while the SYN is unacknowledged
C29_OutboundIntegrity ==
    \A i \in 1..Len(out) :
        \A j \in 1..Len(out[i].data) :
            LET s == wrapping_add(out[i].seq, j - 1)
            IN  out[i].data[j] = AppByte(wrapping_sub(s, wrapping_add(iss, 1)) + 1)

\* the place of a state in the order SynRcvd, Estab, FinWait1, FinWait2,
\* TimeWait
Rank(state) ==
    CASE state = "SynRecvd" -> 0
      [] state = "Estab" -> 1
      [] state = "FinWait1" -> 2
      [] state = "FinWait2" -> 3
      [] state = "TimeWait" -> 4

\* C30: the state of a TCB only moves forward along SynRcvd, Estab,
\* FinWait1, FinWait2, TimeWait under on_packet, on_tick and close: no step
\* moves it backward, SynRcvd and Estab leave for FinWait1 only, TimeWait
\* is never left, and a TCB is in FinWait1, FinWait2 or TimeWait only after
\* close was called on it
C30_StateProgress ==
    [][\A q \in Quads : has(q) =>
          LET old == conn(q).state
              new == conn(q)'.state
          IN  /\ has(q)'
              /\ Rank(new) >= Rank(old)
              /\ (old = "TimeWait") => (new = "TimeWait")
              /\ (Rank(old) <= 1 /\ Rank(new) >= 2) => (new = "FinWait1")
              /\ (Rank(new) >= 2) => conn(q)'.closed]_vars

\* a TCB that went all the way to TimeWait: its FIN was sent and
\* acknowledged and the FIN of the peer was received
C30_Witness ==
    \E q \in Quads :
        /\ has(q) /\ ~poisoned
        /\ conn(q).state = "TimeWait"
        /\ is_some(conn(q).closed_at)
        /\ conn(q).una = wrapping_add(conn(q).closed_at[1], 1)

\* the quads queued in the FIFO of some bound port, one per place
Queued ==
    {<<p, i>> \in AllPorts \X (1..Cardinality(AllQuads)) :
        bound(p) /\ i <= Len(fifo(p))}

\* C31: the connection table is consistent: every quad in a FIFO of pending
\* and every quad held by a TcpStream has a TCB in connections; no entry is
\* ever removed from connections, so that read, write and flush never find
\* their TCB missing; no quad is queued in pending twice, and accept never
\* yields a quad twice
C31_ConnectionTable ==
    /\ [](/\ \A e \in Queued : has(fifo(e[1])[e[2]])
          /\ \A q \in streams : has(q)
          /\ \A q \in AllQuads : rd[q].res # "ConnectionAborted"
          /\ \A e, f \in Queued :
                fifo(e[1])[e[2]] = fifo(f[1])[f[2]] => e = f
          /\ \A e \in Queued : fifo(e[1])[e[2]] \notin streams
          /\ \A i, j \in 1..Len(opened) : opened[i] = opened[j] => i = j)
    /\ [][/\ \A q \in AllQuads : has(q) => has(q)'
          /\ \A p \in AllPorts :
                (ListenerAccept(p) /\ fifo(p) # <<>>)
                => (Head(fifo(p)) \notin streams /\ Head(fifo(p)) \in streams')]_vars

\* every quad has sent its SYN: two of them wait in the FIFO of their port
\* and accept has yielded the third one as a stream
C31_Witness ==
    /\ Len(opened) = Cardinality(AllQuads)
    /\ streams = {Quad(4002, 9001)}
    /\ bound(9001) /\ fifo(9001) = <<>>
    /\ bound(9000) /\ Len(fifo(9000)) = 2
    /\ ~poisoned
====
